---- MODULE Spec2Model ----
(***************************************************************************)
(* Data Sweeper (src/index.py): a Streamlit script that decodes uploaded   *)
(* CSV / Excel files, offers per-file cleaning, column selection, a chart  *)
(* and a converted download.  The whole script is re-executed on every     *)
(* user interaction; widget values live in the session's widget state.     *)
(*                                                                         *)
(* Numbers are exact rationals n/d (pandas computes in float64; rounding   *)
(* is not modelled).  A missing value (NaN) is a cell of kind "nan".       *)
(***************************************************************************)
EXTENDS Integers, Sequences, FiniteSets, TLC

VARIABLES
    xlsxwriter,      \* TRUE iff `import xlsxwriter` succeeds (lines 2-6)
    uploaded_files,  \* value of st.file_uploader (line 181): sequence of files
    ws_columns,      \* multiselect state, by file name (line 225)
    ws_vis,          \* checkbox state, by file name (line 230)
    ws_fmt,          \* radio state, by key = file name (line 239)
    run,             \* the last script run: its page, how it ended, the files
                     \*   its loop entered
    triggered,       \* per file: cleaning directives the user clicked, in order
    steps,           \* number of interactions so far
    pT,              \* pipeline functions applied to an explicit table: input
    pOp,             \*   the stage applied
    pNames,          \*   the names given to the column selection
    pOut             \*   the stage's result

appvars == <<xlsxwriter, uploaded_files, ws_columns, ws_vis, ws_fmt, run,
             triggered, steps>>
purevars == <<pT, pOp, pNames, pOut>>
vars == <<appvars, purevars>>

----------------------------------------------------------------------------
(* Bounds *)

MaxFiles == 3
MaxSteps == 2
MaxRows == 3

----------------------------------------------------------------------------
(* Cells *)

NaN == [k |-> "nan", n |-> 0, d |-> 1, s |-> ""]
Str(t) == [k |-> "str", n |-> 0, d |-> 1, s |-> t]

RECURSIVE GCD(_, _)
GCD(a, b) == IF b = 0 THEN a ELSE GCD(b, a % b)

Abs(a) == IF a < 0 THEN -a ELSE a

Reduced(n, d, g) == [k |-> "num", n |-> n \div g, d |-> d \div g, s |-> ""]

\* the rational n/d (d > 0) in lowest terms
Frac(n, d) == Reduced(n, d, GCD(Abs(n), d))

Num(i) == Frac(i, 1)

IsNaN(c) == c.k = "nan"

----------------------------------------------------------------------------
(* Tables (pandas DataFrame): ordered column names, a dtype per column,    *)
(* and rows as functions from column name to cell.                         *)

Range(s) == {s[i] : i \in DOMAIN s}

EmptyTable == [columns |-> <<>>, dtypes |-> <<>>, rows |-> <<>>]

\* dtype inference of pd.read_csv / pd.read_excel for one column: a column
\* whose cells are all numbers or missing is float64/int64 (an all-missing
\* column is float64); a column of a frame without rows is object.
InferDtype(header, rawrows, j) ==
    IF rawrows # <<>> /\ \A i \in DOMAIN rawrows : rawrows[i][j].k \in {"num", "nan"}
    THEN "number"
    ELSE "object"

\* the DataFrame built from a parsed header and parsed rows
MakeTable(header, rawrows) ==
    [columns |-> header,
     dtypes  |-> [c \in Range(header) |->
                    InferDtype(header, rawrows,
                               CHOOSE j \in DOMAIN header : header[j] = c)],
     rows    |-> [i \in DOMAIN rawrows |->
                    [c \in Range(header) |->
                       rawrows[i][CHOOSE j \in DOMAIN header : header[j] = c]]]]

NumericCols(df) == SelectSeq(df.columns, LAMBDA c : df.dtypes[c] = "number")

----------------------------------------------------------------------------
(* df.drop_duplicates(inplace=True), line 214: scan the rows in order and  *)
(* keep a row iff it was not seen before (NaN compares equal to NaN).      *)

RECURSIVE DropDupRows(_, _)
DropDupRows(rows, seen) ==
    IF rows = <<>> THEN <<>>
    ELSE IF Head(rows) \in seen
         THEN DropDupRows(Tail(rows), seen)
         ELSE <<Head(rows)>> \o DropDupRows(Tail(rows), seen \cup {Head(rows)})

RemoveDuplicates_KeepLast(df) ==
    LET Rev(s) == [i \in DOMAIN s |-> s[Len(s) + 1 - i]]
    IN  [df EXCEPT !.rows = Rev(DropDupRows(Rev(df.rows), {}))]

RemoveDuplicates(df) == [df EXCEPT !.rows = DropDupRows(df.rows, {})]

----------------------------------------------------------------------------
(* Fill Missing Values, lines 219-220.                                     *)

Counted(f, count) == <<f.n, f.d, count>>

\* a cell added to a sum <<n, d, count>>: missing cells are skipped
AddCell(v, acc) ==
    IF IsNaN(v) THEN acc
    ELSE Counted(Frac(v.n * acc[2] + acc[1] * v.d, v.d * acc[2]), acc[3] + 1)

\* sum and count of the non-missing cells of column c, as <<n, d, count>>
RECURSIVE ColSum(_, _)
ColSum(rows, c) ==
    IF rows = <<>> THEN <<0, 1, 0>>
    ELSE AddCell(Head(rows)[c], ColSum(Tail(rows), c))

MeanOf(t) == IF t[3] = 0 THEN NaN ELSE Frac(t[1], t[2] * t[3])

\* df[numeric_cols].mean() for one column: NaN when nothing is non-missing
Mean(df, c) == MeanOf(ColSum(df.rows, c))

\* .fillna(value) with a per-column value: a NaN fill value fills nothing
FillNa(cell, value) == IF IsNaN(cell) /\ ~IsNaN(value) THEN value ELSE cell

FillMissingNumeric_AllCols(df) ==
    [df EXCEPT !.rows =
        [i \in DOMAIN df.rows |->
            [c \in Range(df.columns) |->
                IF \A r \in DOMAIN df.rows : df.rows[r][c].k \in {"num", "nan"}
                THEN FillNa(df.rows[i][c], Mean(df, c))
                ELSE FillNa(df.rows[i][c], Str("missing"))]]]

\* df[numeric_cols] = df[numeric_cols].fillna(means)
FillCols(df, numeric_cols, means) ==
    [df EXCEPT !.rows =
        [i \in DOMAIN df.rows |->
            [c \in Range(df.columns) |->
                IF c \in numeric_cols
                THEN FillNa(df.rows[i][c], means[c])
                ELSE df.rows[i][c]]]]

FillMissingNumeric(df) ==
    FillCols(df, Range(NumericCols(df)), [c \in Range(NumericCols(df)) |-> Mean(df, c)])

----------------------------------------------------------------------------
(* df = df[columns], line 226: KeyError when a name is not a column.       *)

ColumnsValid(df, names) == Range(names) \subseteq Range(df.columns)

Project(df, names) ==
    [columns |-> names,
     dtypes  |-> [c \in Range(names) |-> df.dtypes[c]],
     rows    |-> [i \in DOMAIN df.rows |-> [c \in Range(names) |-> df.rows[i][c]]]]

SelectColumns(df, names) ==
    IF ColumnsValid(df, names)
    THEN [error |-> "none", df |-> Project(df, names)]
    ELSE [error |-> "KeyError", df |-> EmptyTable]

----------------------------------------------------------------------------
(* Data Visualization, lines 231-235.                                      *)

\* DataFrame.dropna(): keep the rows without any missing cell
DropNa(df) ==
    [df EXCEPT !.rows =
        SelectSeq(df.rows, LAMBDA r : \A c \in Range(df.columns) : ~IsNaN(r[c]))]

NoChart == [kind |-> "none", data |-> EmptyTable]

\* lines 232-235
ChartOf(numeric_data) ==
    IF Len(numeric_data.columns) >= 1
    THEN [kind |-> "bar_chart", data |-> numeric_data]
    ELSE [kind |-> "nodata", data |-> EmptyTable]

Visualize(df) == ChartOf(DropNa(Project(df, NumericCols(df))))

----------------------------------------------------------------------------
(* File names are sequences of one-character strings.                      *)

\* str.lower() on the characters that occur in the modelled names
Lower(ch) ==
    CASE ch = "A" -> "a"
      [] ch = "C" -> "c"
      [] ch = "S" -> "s"
      [] ch = "V" -> "v"
      [] ch = "X" -> "x"
      [] ch = "L" -> "l"
      [] ch = "B" -> "b"
      [] OTHER    -> ch

LowerStr(s) == [i \in DOMAIN s |-> Lower(s[i])]

\* os.path.splitext(p) for a name without directory separators: split at
\* the last dot unless only dots precede it; returns <<root, ext>>
rfind(p, dots) == IF dots = {} THEN 0 ELSE CHOOSE i \in dots : \A j \in dots : j <= i

SplitAt(p, dotIndex) ==
    IF dotIndex > 0 /\ \E k \in 1..(dotIndex - 1) : p[k] # "."
    THEN <<SubSeq(p, 1, dotIndex - 1), SubSeq(p, dotIndex, Len(p))>>
    ELSE <<p, <<>>>>

splitext(p) == SplitAt(p, rfind(p, {i \in DOMAIN p : p[i] = "."}))

\* line 185
file_ext(name) == LowerStr(splitext(name)[2])

\* str.replace(old, new) for a non-empty old: every non-overlapping
\* occurrence, left to right
RECURSIVE Replace(_, _, _)
Replace(s, old, new) ==
    IF Len(s) < Len(old) THEN s
    ELSE IF SubSeq(s, 1, Len(old)) = old
         THEN new \o Replace(SubSeq(s, Len(old) + 1, Len(s)), old, new)
         ELSE <<Head(s)>> \o Replace(Tail(s), old, new)

DotCsv  == <<".", "c", "s", "v">>
DotXlsx == <<".", "x", "l", "s", "x">>

MimeCsv  == "text/csv"
MimeXlsx == "application/vnd.openxmlformats-officedocument.spreadsheetml.sheet"

----------------------------------------------------------------------------
(* Decoding, lines 188-198.  An uploaded file's bytes are modelled by what *)
(* they parse to: kind "csv" or "xlsx" with a header and rows, or          *)
(* "garbage".  pd.read_csv / pd.read_excel raise on bytes of another kind. *)

Decode(format, content) ==
    IF content.kind = format
    THEN [error |-> "none", df |-> MakeTable(content.header, content.rows)]
    ELSE [error |-> "ParserError", df |-> EmptyTable]

----------------------------------------------------------------------------
(* Encoding, lines 242-252.                                                *)

\* to_csv writes a missing value as the empty field
CsvField(cell) == IF IsNaN(cell) THEN Str("") ELSE cell

EmptyBuffer == [format |-> "", header |-> <<>>, lines |-> <<>>]

Encode(df, conversion_type) ==
    IF conversion_type = "CSV"
    THEN [format |-> "csv", header |-> df.columns,
          lines |-> [i \in DOMAIN df.rows |->
                       [j \in DOMAIN df.columns |-> CsvField(df.rows[i][df.columns[j]])]]]
    ELSE [format |-> "xlsx", header |-> df.columns,
          lines |-> [i \in DOMAIN df.rows |->
                       [j \in DOMAIN df.columns |-> df.rows[i][df.columns[j]]]]]

NoDownload == [offered |-> FALSE, file_name |-> <<>>, mime |-> "", data |-> EmptyBuffer]

\* lines 241-260, when the Convert button returns True
Convert(name, ext, df, conversion_type) ==
    [offered   |-> TRUE,
     file_name |-> Replace(name, ext, IF conversion_type = "CSV" THEN DotCsv ELSE DotXlsx),
     mime      |-> IF conversion_type = "CSV" THEN MimeCsv ELSE MimeXlsx,
     data      |-> Encode(df, conversion_type)]

----------------------------------------------------------------------------
(* The loop body after decoding, lines 200-260, as a function of the       *)
(* values its widgets return.  click is the button pressed to cause this   *)
(* run, [kind, name]: st.button returns True only for that button in that  *)
(* run.  raised is the exception that leaves the body, if any.             *)

NoClick == [kind |-> "none", name |-> <<>>]

Clicked(click, kind, name) == click.kind = kind /\ click.name = name

\* lines 213-215
RemoveDuplicatesButton(name, click, df) ==
    IF Clicked(click, "rd", name) THEN RemoveDuplicates(df) ELSE df

\* lines 218-221
FillMissingButton(name, click, df) ==
    IF Clicked(click, "fill", name) THEN FillMissingNumeric(df) ELSE df

\* lines 228-260, given the outcome of df = df[columns]
AfterSelection(name, ext, sel, click, show_vis, conversion_type) ==
    IF sel.error # "none"
    THEN [raised |-> sel.error, df |-> EmptyTable, chart |-> NoChart,
          download |-> NoDownload]
    ELSE [raised   |-> "none",
          df       |-> sel.df,
          chart    |-> IF show_vis THEN Visualize(sel.df) ELSE NoChart,
          download |-> IF Clicked(click, "convert", name)
                       THEN Convert(name, ext, sel.df, conversion_type)
                       ELSE NoDownload]

Pipeline(name, ext, df0, click, columns, show_vis, conversion_type) ==
    AfterSelection(name, ext,
                   SelectColumns(FillMissingButton(name, click,
                                     RemoveDuplicatesButton(name, click, df0)),
                                 columns),
                   click, show_vis, conversion_type)

----------------------------------------------------------------------------
(* One iteration of the loop over uploaded_files, lines 184-260.           *)

HeadRows == 5

\* df.head(), line 206
head(df) == SubSeq(df.rows, 1, IF Len(df.rows) < HeadRows THEN Len(df.rows) ELSE HeadRows)

Blank(status, attempted) ==
    [status |-> status, raised |-> "none", decode_attempted |-> attempted,
     preview |-> <<>>, options |-> FALSE, df |-> EmptyTable,
     chart |-> NoChart, download |-> NoDownload]

NotReached == Blank("not_reached", FALSE)

\* lines 200-260 for a decoded file.  registered holds the names whose
\* widgets an earlier iteration of this run created: a second widget with
\* the same label (or the same key, line 239) raises DuplicateWidgetID at
\* line 213.  Nothing encloses these lines in a try, so an exception
\* raised here leaves the loop.
\* what the file leaves on the page, given its preview and the outcome of
\* the expander block
Shown(preview, r) ==
    IF r.raised # "none"
    THEN [Blank("exception", TRUE) EXCEPT !.raised = r.raised,
                                          !.preview = preview,
                                          !.options = TRUE]
    ELSE [status |-> "rendered", raised |-> "none", decode_attempted |-> TRUE,
          preview |-> preview, options |-> TRUE, df |-> r.df,
          chart |-> r.chart, download |-> r.download]

FileBody(name, ext, df, registered, click, columns, show_vis, conversion_type) ==
    IF name \in registered
    THEN [Blank("exception", TRUE) EXCEPT !.raised = "DuplicateWidgetID",
                                          !.preview = head(df)]
    ELSE Shown(head(df),
               Pipeline(name, ext, df, click, columns, show_vis, conversion_type))

\* an exception that leaves the loop body ends the script run
EndsRun(r) == r.status = "exception"

\* widget values: the session's state for the widget, else its default
Lookup(state, name, default) == IF name \in DOMAIN state THEN state[name] ELSE default

\* lines 196-260, given the outcome of the read in the try block
AfterDecode(file, ext, dec, registered, click, wsc, wsv, wsf) ==
    IF dec.error # "none"
    THEN [Blank("decode_error", TRUE) EXCEPT !.raised = dec.error]
    ELSE FileBody(file.name, ext, dec.df, registered, click,
                  Lookup(wsc, file.name, dec.df.columns),
                  Lookup(wsv, file.name, FALSE),
                  Lookup(wsf, file.name, "CSV"))

\* lines 188-198, given file_ext
Dispatch(file, ext, registered, click, wsc, wsv, wsf) ==
    IF ext \notin {DotCsv, DotXlsx}
    THEN Blank("unsupported", FALSE)
    ELSE AfterDecode(file, ext,
                     Decode(IF ext = DotCsv THEN "csv" ELSE "xlsx", file.content),
                     registered, click, wsc, wsv, wsf)

\* lines 185-260
ProcFile(file, registered, click, wsc, wsv, wsf) ==
    Dispatch(file, file_ext(file.name), registered, click, wsc, wsv, wsf)

----------------------------------------------------------------------------
(* One run of the script.                                                  *)

\* what sys.exit prints, line 6
ExitMessages(by) == IF by = "SystemExit" THEN <<"Missing dependency: xlsxwriter">> ELSE <<>>

RunResult(pg, by, vis) ==
    [page |-> pg, by |-> by, visited |-> vis, stderr |-> ExitMessages(by)]

\* the run's outcome with file i's outcome r put before the rest's
Prepend(r, i, rest) == RunResult(<<r>> \o rest.page, rest.by, <<i>> \o rest.visited)

RECURSIVE RunFrom(_, _, _, _, _, _, _)

\* after file i, whose iteration left r: the loop goes on unless an
\* exception left the body
Continue(files, i, r, registered, click, wsc, wsv, wsf) ==
    IF EndsRun(r)
    THEN RunResult(<<r>> \o [j \in 1..(Len(files) - i) |-> NotReached], r.raised, <<i>>)
    ELSE Prepend(r, i,
                 RunFrom(files, i + 1,
                         IF r.status = "rendered"
                         THEN registered \cup {files[i].name}
                         ELSE registered,
                         click, wsc, wsv, wsf))

\* the for loop of line 184 from file i on
RunFrom(files, i, registered, click, wsc, wsv, wsf) ==
    IF i > Len(files) THEN RunResult(<<>>, "completed", <<>>)
    ELSE Continue(files, i, ProcFile(files[i], registered, click, wsc, wsv, wsf),
                  registered, click, wsc, wsv, wsf)

\* lines 2-6, then the rest of the script
RunScript(installed, files, click, wsc, wsv, wsf) ==
    IF ~installed
    THEN RunResult([j \in DOMAIN files |-> NotReached], "SystemExit", <<>>)
    ELSE RunFrom(files, 1, {}, click, wsc, wsv, wsf)

----------------------------------------------------------------------------
(* Inputs: the files a user may upload.                                    *)

CsvDupMissing ==
    [kind |-> "csv", header |-> <<"x", "n">>,
     rows |-> << <<Num(1), Str("a")>>, <<Num(1), Str("a")>>,
                 <<NaN, Str("b")>>, <<Num(3), NaN>> >>]

XlsxAllRowsMissing ==
    [kind |-> "xlsx", header |-> <<"x", "z">>,
     rows |-> << <<NaN, NaN>>, <<Num(1), NaN>> >>]

Garbage == [kind |-> "garbage", header |-> <<>>, rows |-> <<>>]

FilePool ==
    { [name |-> <<"a", ".", "c", "s", "v", ".", "c", "s", "v">>, content |-> CsvDupMissing],
      [name |-> <<"B", ".", "X", "L", "S", "X">>, content |-> XlsxAllRowsMissing],
      [name |-> <<"a", ".", "c", "s", "v", ".", "c", "s", "v">>, content |-> Garbage],
      [name |-> <<"d", ".", "t", "x", "t">>, content |-> CsvDupMissing] }

Batches == UNION {[1..k -> FilePool] : k \in 1..MaxFiles}

----------------------------------------------------------------------------
(* The session: one script run per user interaction.                       *)

Set(state, name, v) ==
    [x \in (DOMAIN state) \cup {name} |-> IF x = name THEN v ELSE state[x]]

Rendered(i) == i \in DOMAIN run.page /\ run.page[i].status = "rendered"

NameOf(i) == uploaded_files[i].name

\* the options of the multiselect of line 225 are the decoded columns
OptionsOf(i) ==
    Decode(IF file_ext(NameOf(i)) = DotCsv THEN "csv" ELSE "xlsx",
           uploaded_files[i].content).df.columns

SelectionOf(i) == Lookup(ws_columns, NameOf(i), OptionsOf(i))

Interact ==
    /\ steps < MaxSteps
    /\ steps' = steps + 1

PureIdle ==
    /\ pT = EmptyTable
    /\ pOp = "idle"
    /\ pNames = <<>>
    /\ pOut = NotReached

Init ==
    /\ xlsxwriter \in BOOLEAN
    /\ uploaded_files = <<>>
    /\ ws_columns = <<>>
    /\ ws_vis = <<>>
    /\ ws_fmt = <<>>
    /\ run = RunScript(xlsxwriter, <<>>, NoClick, <<>>, <<>>, <<>>)
    /\ triggered = <<>>
    /\ steps = 0
    /\ PureIdle

\* line 181: the uploader exists only in a run that got that far
Upload ==
    /\ run.by # "SystemExit"
    /\ uploaded_files = <<>>
    /\ \E batch \in Batches :
          /\ uploaded_files' = batch
          /\ run' = RunScript(xlsxwriter, batch, NoClick, ws_columns, ws_vis, ws_fmt)
          /\ triggered' = [i \in DOMAIN batch |-> <<>>]
    /\ UNCHANGED <<xlsxwriter, ws_columns, ws_vis, ws_fmt, steps, purevars>>

\* a button of file i is pressed: lines 213, 218, 241
ClickButton(kind, i) ==
    /\ Rendered(i)
    /\ Interact
    /\ run' = RunScript(xlsxwriter, uploaded_files, [kind |-> kind, name |-> NameOf(i)],
                        ws_columns, ws_vis, ws_fmt)
    /\ UNCHANGED <<xlsxwriter, uploaded_files, ws_columns, ws_vis, ws_fmt, purevars>>

ClickRemoveDuplicates(i) ==
    /\ ClickButton("rd", i)
    /\ triggered' = [triggered EXCEPT ![i] = Append(@, "rd")]

ClickFillMissing(i) ==
    /\ ClickButton("fill", i)
    /\ triggered' = [triggered EXCEPT ![i] = Append(@, "fill")]

ClickConvert(i) ==
    /\ ClickButton("convert", i)
    /\ UNCHANGED triggered

\* line 225: the user removes a column from, or adds one to, the selection
ChangeColumns(i, names) ==
    /\ Interact
    /\ ws_columns' = Set(ws_columns, NameOf(i), names)
    /\ run' = RunScript(xlsxwriter, uploaded_files, NoClick, ws_columns', ws_vis, ws_fmt)
    /\ UNCHANGED <<xlsxwriter, uploaded_files, ws_vis, ws_fmt, triggered, purevars>>

DeselectColumn(i) ==
    /\ Rendered(i)
    /\ \E c \in Range(SelectionOf(i)) :
          ChangeColumns(i, SelectSeq(SelectionOf(i), LAMBDA x : x # c))

SelectColumn(i) ==
    /\ Rendered(i)
    /\ \E c \in Range(OptionsOf(i)) \ Range(SelectionOf(i)) :
          ChangeColumns(i, Append(SelectionOf(i), c))

\* line 230
ToggleVisualization(i) ==
    /\ Rendered(i)
    /\ Interact
    /\ ws_vis' = Set(ws_vis, NameOf(i), ~Lookup(ws_vis, NameOf(i), FALSE))
    /\ run' = RunScript(xlsxwriter, uploaded_files, NoClick, ws_columns, ws_vis', ws_fmt)
    /\ UNCHANGED <<xlsxwriter, uploaded_files, ws_columns, ws_fmt, triggered, purevars>>

\* line 239
ChooseFormat(i) ==
    /\ Rendered(i)
    /\ Interact
    /\ \E fmt \in {"CSV", "Excel"} \ {Lookup(ws_fmt, NameOf(i), "CSV")} :
          ws_fmt' = Set(ws_fmt, NameOf(i), fmt)
    /\ run' = RunScript(xlsxwriter, uploaded_files, NoClick, ws_columns, ws_vis, ws_fmt')
    /\ UNCHANGED <<xlsxwriter, uploaded_files, ws_columns, ws_vis, triggered, purevars>>

\* the script is run again without any widget having changed
Rerun ==
    /\ Interact
    /\ run' = RunScript(xlsxwriter, uploaded_files, NoClick, ws_columns, ws_vis, ws_fmt)
    /\ UNCHANGED <<xlsxwriter, uploaded_files, ws_columns, ws_vis, ws_fmt, triggered,
                   purevars>>

Next ==
    \/ Upload
    \/ \E i \in 1..MaxFiles : ClickRemoveDuplicates(i)
    \/ \E i \in 1..MaxFiles : ClickFillMissing(i)
    \/ \E i \in 1..MaxFiles : ClickConvert(i)
    \/ \E i \in 1..MaxFiles : DeselectColumn(i)
    \/ \E i \in 1..MaxFiles : SelectColumn(i)
    \/ \E i \in 1..MaxFiles : ToggleVisualization(i)
    \/ \E i \in 1..MaxFiles : ChooseFormat(i)
    \/ Rerun

Spec == Init /\ [][Next]_vars

----------------------------------------------------------------------------
(* The pipeline stages applied to explicit tables: every table over the    *)
(* columns below with at most MaxRows rows is decoded and given to the     *)
(* loop body with one stage switched on.                                   *)

PureName == <<"t", ".", "c", "s", "v">>

PureHeaders == { <<"x", "n">>, <<"x", "y">>, <<"n">> }

CellsOf(c) ==
    CASE c = "x" -> {NaN, Num(1), Num(2)}
      [] c = "n" -> {NaN, Str("a")}
      [] c = "y" -> {NaN, Num(3)}

RawRows(h) == {r \in [DOMAIN h -> UNION {CellsOf(c) : c \in Range(h)}] :
                 \A j \in DOMAIN h : r[j] \in CellsOf(h[j])}

PureTables ==
    UNION { { MakeTable(h, rows) : rows \in UNION {[1..k -> RawRows(h)] : k \in 0..MaxRows} }
            : h \in PureHeaders }

\* the names a column selection may be asked for: "z" is no column
PureNames == {"x", "n", "y", "z"}

NameSeqs ==
    UNION { {q \in [1..k -> PureNames] : \A i, j \in 1..k : i # j => q[i] # q[j]}
            : k \in 0..Cardinality(PureNames) }

AppIdle ==
    /\ xlsxwriter = TRUE
    /\ uploaded_files = <<>>
    /\ ws_columns = <<>>
    /\ ws_vis = <<>>
    /\ ws_fmt = <<>>
    /\ run = RunScript(TRUE, <<>>, NoClick, <<>>, <<>>, <<>>)
    /\ triggered = <<>>
    /\ steps = 0

InitPure ==
    /\ AppIdle
    /\ pT \in PureTables
    /\ pOp = "none"
    /\ pNames = pT.columns
    /\ pOut = NotReached

Apply(op, kind, names, show_vis) ==
    /\ pOp = "none"
    /\ pOp' = op
    /\ pNames' = names
    /\ pOut' = FileBody(PureName, DotCsv, pT, {}, [kind |-> kind, name |-> PureName],
                        names, show_vis, "CSV")
    /\ UNCHANGED <<pT, appvars>>

PRemoveDuplicates == Apply("rd", "rd", pT.columns, FALSE)

PFillMissingNumeric == Apply("fill", "fill", pT.columns, FALSE)

PSelectColumns == \E names \in NameSeqs : Apply("select", "none", names, FALSE)

PVisualize == Apply("vis", "none", pT.columns, TRUE)

NextPure ==
    \/ PRemoveDuplicates
    \/ PFillMissingNumeric
    \/ PSelectColumns
    \/ PVisualize

SpecPure == InitPure /\ [][NextPure]_vars

----------------------------------------------------------------------------
(* Properties of the pipeline stages (checked under SpecPure)              *)

\* indices of the rows that have no earlier equal row
Kept(rows) == {i \in DOMAIN rows : \A j \in 1..(i - 1) : rows[j] # rows[i]}

\* those rows, in their original relative order
FirstOccurrences(rows) ==
    [k \in 1..Cardinality(Kept(rows)) |->
        rows[CHOOSE i \in Kept(rows) : Cardinality({j \in Kept(rows) : j <= i}) = k]]

\* C6: RemoveDuplicates returns exactly the rows without an earlier equal
\* row, in their original order; applying it again changes nothing; a table
\* without duplicates is returned unchanged.
C6_RemoveDuplicates ==
    pOp = "rd" =>
        /\ pOut.status = "rendered"
        /\ pOut.df.columns = pT.columns
        /\ pOut.df.dtypes = pT.dtypes
        /\ pOut.df.rows = FirstOccurrences(pT.rows)
        /\ RemoveDuplicates(pOut.df) = pOut.df
        /\ (Kept(pT.rows) = DOMAIN pT.rows => pOut.df = pT)

\* a table a, b, a: the later duplicate goes, two rows stay in order
C6_Witness ==
    /\ pOp = "rd"
    /\ Len(pT.rows) = 3
    /\ pT.rows[1] = pT.rows[3]
    /\ pT.rows[1] # pT.rows[2]
    /\ Len(pOut.df.rows) = 2

NonMissing(T, c) == {i \in DOMAIN T.rows : ~IsNaN(T.rows[i][c])}

RECURSIVE SumOver(_, _, _)
SumOver(T, c, S) ==
    IF S = {} THEN 0
    ELSE LET i == CHOOSE i \in S : TRUE
         IN  T.rows[i][c].n + SumOver(T, c, S \ {i})

\* m is the arithmetic mean of the non-missing (integer) values of column c
IsMeanOf(m, T, c) ==
    /\ m.k = "num"
    /\ \A i \in NonMissing(T, c) : T.rows[i][c].k = "num" /\ T.rows[i][c].d = 1
    /\ m.n * Cardinality(NonMissing(T, c)) = m.d * SumOver(T, c, NonMissing(T, c))

\* C7: FillMissingNumeric replaces every missing value of a numeric column
\* that has a non-missing value by the mean of the column's non-missing
\* values; a numeric column without any keeps its missing values and the
\* operation does not fail; everything else is left as it was.
C7_FillMissingNumeric ==
    pOp = "fill" =>
        /\ pOut.status = "rendered"
        /\ pOut.df.columns = pT.columns
        /\ pOut.df.dtypes = pT.dtypes
        /\ DOMAIN pOut.df.rows = DOMAIN pT.rows
        /\ \A i \in DOMAIN pT.rows : \A c \in Range(pT.columns) :
              IF pT.dtypes[c] = "number" /\ IsNaN(pT.rows[i][c]) /\ NonMissing(pT, c) # {}
              THEN IsMeanOf(pOut.df.rows[i][c], pT, c)
              ELSE pOut.df.rows[i][c] = pT.rows[i][c]

\* one numeric column is filled with a mean that is no integer while
\* another numeric column has nothing but missing values
C7_Witness ==
    /\ pOp = "fill"
    /\ \E c \in Range(pT.columns) : \E i \in DOMAIN pT.rows :
          /\ pT.dtypes[c] = "number"
          /\ IsNaN(pT.rows[i][c])
          /\ pOut.df.rows[i][c].k = "num"
          /\ pOut.df.rows[i][c].d = 2
    /\ \E c \in Range(pT.columns) :
          /\ pT.dtypes[c] = "number"
          /\ NonMissing(pT, c) = {}
          /\ \A i \in DOMAIN pT.rows : IsNaN(pOut.df.rows[i][c])

\* C8: SelectColumns with a name that is no column fails with an error
\* scoped to that file only (the loop goes on to the next file); with all
\* names valid the result has exactly the columns in names, in that order,
\* and every row.
C8_SelectColumns ==
    pOp = "select" =>
        IF ~ColumnsValid(pT, pNames)
        THEN pOut.raised = "KeyError" /\ ~EndsRun(pOut)
        ELSE /\ pOut.status = "rendered"
             /\ pOut.df.columns = pNames
             /\ DOMAIN pOut.df.rows = DOMAIN pT.rows
             /\ \A i \in DOMAIN pT.rows : \A c \in Range(pNames) :
                   pOut.df.rows[i][c] = pT.rows[i][c]

\* C8 for valid names alone: the columns are those of names, in that order
C8_ValidNames == ColumnsValid(pT, pNames) => C8_SelectColumns

\* a selection that reverses the table's column order
C8_ValidNamesWitness ==
    /\ pOp = "select"
    /\ Len(pT.columns) = 2
    /\ pNames = <<pT.columns[2], pT.columns[1]>>
    /\ pOut.df.columns = pNames
    /\ Len(pOut.df.rows) = 2

\* the rows of T that have a value in every numeric column
CompleteRows(T) ==
    {i \in DOMAIN T.rows : \A c \in Range(NumericCols(T)) : ~IsNaN(T.rows[i][c])}

\* C9: Visualize takes the numeric columns, drops the rows with a missing
\* value in any of them, draws a chart only when numeric data remains and
\* signals "no data" whenever none remains.
C9_Visualize ==
    pOp = "vis" =>
        IF NumericCols(pT) # <<>> /\ CompleteRows(pT) # {}
        THEN /\ pOut.chart.kind = "bar_chart"
             /\ pOut.chart.data.columns = NumericCols(pT)
             /\ Len(pOut.chart.data.rows) = Cardinality(CompleteRows(pT))
             /\ \A k \in DOMAIN pOut.chart.data.rows :
                   \A c \in Range(NumericCols(pT)) : ~IsNaN(pOut.chart.data.rows[k][c])
        ELSE pOut.chart.kind = "nodata"

\* what the code decides by: "no data" iff there is no numeric column
C9_ByColumns ==
    pOp = "vis" => (pOut.chart.kind = "nodata" <=> NumericCols(pT) = <<>>)

----------------------------------------------------------------------------
(* Properties of the session (checked under Spec)                          *)

Page(i) == run.page[i]

Files == DOMAIN uploaded_files

Supported(f) == file_ext(f.name) \in {DotCsv, DotXlsx}

Decodable(f) ==
    /\ Supported(f)
    /\ f.content.kind = (IF file_ext(f.name) = DotCsv THEN "csv" ELSE "xlsx")

\* how the loop treats a file on its own
OwnStatus(f) ==
    IF ~Supported(f) THEN "unsupported"
    ELSE IF ~Decodable(f) THEN "decode_error"
    ELSE "rendered"

DecodedOf(i) ==
    Decode(IF file_ext(NameOf(i)) = DotCsv THEN "csv" ELSE "xlsx",
           uploaded_files[i].content).df

RECURSIVE ApplyDirectives(_, _)
ApplyDirectives(ds, df) ==
    IF ds = <<>> THEN df
    ELSE ApplyDirectives(Tail(ds),
                         IF Head(ds) = "rd" THEN RemoveDuplicates(df)
                         ELSE FillMissingNumeric(df))

FormatOf(i) == Lookup(ws_fmt, NameOf(i), "CSV")

\* C1: the buffer encoded on Convert is the encoding of the decoded table
\* after every cleaning directive the user triggered for the file and the
\* current column selection.
C1_ConvertEncodesCleanedTable ==
    \A i \in Files :
        Page(i).download.offered =>
            Page(i).download.data =
                Encode(Project(ApplyDirectives(triggered[i], DecodedOf(i)), SelectionOf(i)),
                       FormatOf(i))

\* what the code encodes: the decoded table with the column selection alone
C1_ConvertEncodesDecodedTable ==
    \A i \in Files :
        Page(i).download.offered =>
            Page(i).download.data =
                Encode(Project(DecodedOf(i), SelectionOf(i)), FormatOf(i))

SkippedWithError(i, status) ==
    /\ Page(i).status = status
    /\ Page(i).preview = <<>>
    /\ ~Page(i).options
    /\ Page(i).chart = NoChart
    /\ ~Page(i).download.offered

OthersProcessed(i) == \A j \in Files \ {i} : Page(j).status = OwnStatus(uploaded_files[j])

InUploadOrder == run.visited = [k \in Files |-> k]

\* C2: a file whose bytes fail to decode is reported with an error and
\* skipped, and every other file of the batch is still processed, in
\* upload order.
C2_DecodeFailureSkipsOnlyThatFile ==
    \A i \in Files :
        OwnStatus(uploaded_files[i]) = "decode_error" =>
            /\ SkippedWithError(i, "decode_error")
            /\ OthersProcessed(i)
            /\ InUploadOrder

\* C3: a file with another extension than .csv or .xlsx is rejected before
\* any decode is attempted on it, and the remaining files are processed.
C3_UnsupportedRejectedBeforeDecode ==
    \A i \in Files :
        OwnStatus(uploaded_files[i]) = "unsupported" =>
            /\ SkippedWithError(i, "unsupported")
            /\ ~Page(i).decode_attempted
            /\ OthersProcessed(i)

\* C4: the download is named <original-basename>.csv with MIME text/csv for
\* CSV, <original-basename>.xlsx with the spreadsheet MIME type for Excel.
C4_DownloadNamedByBasename ==
    \A i \in Files :
        Page(i).download.offered =>
            /\ Page(i).download.file_name =
                  splitext(NameOf(i))[1] \o (IF FormatOf(i) = "CSV" THEN DotCsv ELSE DotXlsx)
            /\ Page(i).download.mime = (IF FormatOf(i) = "CSV" THEN MimeCsv ELSE MimeXlsx)

\* C4 for the names whose extension is written in lower case
C4_LowerCaseExtension ==
    \A i \in Files :
        splitext(NameOf(i))[2] = file_ext(NameOf(i)) =>
            (Page(i).download.offered =>
                Page(i).download.file_name =
                    splitext(NameOf(i))[1] \o (IF FormatOf(i) = "CSV" THEN DotCsv ELSE DotXlsx))

\* the format choice a file has on the page
ChoiceOf(pg, fmt, i) ==
    IF pg[i].status = "rendered" THEN Lookup(fmt, NameOf(i), "CSV") ELSE "no choice"

\* C5: changing the format choice or pressing Convert for one file never
\* changes the format choice, the encoded buffer or the offered download of
\* another file of the batch.
C5_FormatIndependentPerFile ==
    [][ \A i \in Files : \A j \in Files \ {i} :
           ( /\ uploaded_files' = uploaded_files
             /\ \/ ChoiceOf(run.page, ws_fmt, i) # ChoiceOf(run'.page, ws_fmt', i)
                \/ run'.page[i].download.offered )
           => /\ ChoiceOf(run'.page, ws_fmt', j) = ChoiceOf(run.page, ws_fmt, j)
              /\ run'.page[j].download = run.page[j].download ]_vars

\* every decodable file of the batch has a format choice of its own
C5_EveryFileHasItsChoice ==
    \A i \in Files : Decodable(uploaded_files[i]) => Page(i).status = "rendered"

\* C10: a missing xlsxwriter ends the run with that error reported once
\* before any file is decoded, cleaned or encoded; no other error ever ends
\* the whole run.
C10_OnlyMissingDependencyEndsRun ==
    /\ ~xlsxwriter =>
          /\ run.by = "SystemExit"
          /\ Len(run.stderr) = 1
          /\ run.visited = <<>>
          /\ \A i \in DOMAIN run.page : Page(i) = NotReached
    /\ xlsxwriter => run.by = "completed"

\* no two decodable files of the batch carry the same name
NoSharedName ==
    \A i, j \in Files :
        (i # j /\ Decodable(uploaded_files[i]) /\ Decodable(uploaded_files[j]))
            => NameOf(i) # NameOf(j)

\* C2, C3 and C10 in the batches without a shared name
C2_NoSharedName == NoSharedName => C2_DecodeFailureSkipsOnlyThatFile
C3_NoSharedName == NoSharedName => C3_UnsupportedRejectedBeforeDecode
C10_NoSharedName == NoSharedName => C10_OnlyMissingDependencyEndsRun

\* the multiselect offers the table's columns only: line 226 never raises
\* in a session
NoKeyErrorInSession == \A i \in DOMAIN run.page : Page(i).raised # "KeyError"

====
